---- MODULE Spec2Model ----
(***************************************************************************)
(* The geosgcm package recipe (var/spack/repos/builtin/packages/geosgcm/   *)
(* package.py) as a state machine: one build of the package runs the       *)
(* pre-cmake hook clone_mepo, the flag computation cmake_args, the         *)
(* environment patch setup_build_environment and the cmake invocation.     *)
(* cmake_args and its pieces are operators over the package object `self`  *)
(* (variants, compiler, concrete dependencies); the actions apply them.    *)
(***************************************************************************)
EXTENDS Integers, Sequences, FiniteSets

VARIABLES
    self,        \* the package object: variants, compiler, concrete spec
    pc,          \* index into Phases of the next step of the build
    status,      \* "running" | "failed" | "done"
    log,         \* the steps entered so far, in order
    mepo_exit,   \* <<exit status>> of `mepo clone` (<<>> before it ran)
    cmake_exit,  \* <<exit status>> of the cmake invocation (<<>> before it ran)
    args,        \* the list cmake_args returned (<<>> before, or when it raised)
    err,         \* the exception that aborted the build ("" if none)
    env_mods,    \* the EnvironmentModifications object handed to the recipe
    environ,     \* the environment of the build process
    environ0,    \* the environment the build started with
    cmake_cmd    \* what the cmake invocation received (<<>> before it ran)

vars == <<self, pc, status, log, mepo_exit, cmake_exit, args, err,
          env_mods, environ, environ0, cmake_cmd>>

-----------------------------------------------------------------------------
(* Bounds and program constants *)

\* Largest gfortran major version whose -dumpversion output is enumerated.
MaxMajor == 11

\* package.py:107  `if gfortran_major_ver >= 10`
GfortranGate == 10

Majors == (GfortranGate - 1)..MaxMajor

-----------------------------------------------------------------------------
(* Variant declarations, package.py:23-38 *)

BuildTypes == {"Debug", "Release", "Aggressive"}

Variants ==
    [debug : BOOLEAN, f2py : BOOLEAN, extdata2g : BOOLEAN, develop : BOOLEAN,
     build_type : BuildTypes]

DefaultVariants ==
    [debug |-> FALSE, f2py |-> FALSE, extdata2g |-> TRUE, develop |-> FALSE,
     build_type |-> "Release"]

-----------------------------------------------------------------------------
(* The inputs of one build *)

GccFamily == {"gcc", "clang", "apple-clang"}

CompilerNames == GccFamily \cup {"intel", "nag"}

\* Packages that can satisfy depends_on("mpi") (package.py:43).  The first
\* five are the ones cmake_args tests for; the last two are other providers.
MpiProviders ==
    {"mpich", "openmpi", "intel-oneapi-mpi", "mvapich", "mpt",
     "cray-mpich", "intel-mpi"}

\* The non-MPI dependencies declared at package.py:40-75.
OtherDeps ==
    {"cmake", "ecbuild", "python", "py-pyyaml", "py-numpy", "perl", "hdf5",
     "netcdf-c", "netcdf-fortran", "esmf", "gftl", "gftl-shared", "pflogger",
     "fargparse", "mepo"}

EsmfPrefixes == {"/opt/spack/esmf-8.6.1-abc", "/usr/local/esmf"}

Digit(d) ==
    CASE d = 0 -> "0" [] d = 1 -> "1" [] d = 2 -> "2" [] d = 3 -> "3"
      [] d = 4 -> "4" [] d = 5 -> "5" [] d = 6 -> "6" [] d = 7 -> "7"
      [] d = 8 -> "8" [] d = 9 -> "9"

\* The decimal text of n < 100, one character per element.
Dec(n) == IF n < 10 THEN <<Digit(n)>> ELSE <<Digit(n \div 10), Digit(n % 10)>>

\* What `fc -dumpversion` prints for a Fortran compiler of major version n:
\* the bare major ("11" and a newline) or the full version ("9.4.0").
DumpVersionTexts(n) ==
    {Dec(n) \o <<"\n">>, Dec(n) \o <<".", "4", ".", "0">>}

\* A Fortran compiler (self.compiler.fc): its major version and what its
\* -dumpversion prints.  Every enumerated compiler prints its version; what
\* cmake_args does with any other output is the ValueError branch below.
FortranCompilers ==
    UNION {{[major |-> n, dumpversion |-> t] : t \in DumpVersionTexts(n)} :
             n \in Majors}

EnvNames == {"BASEDIR", "PATH"}

InitialEnvirons ==
    {[n \in {"PATH"} |-> "/usr/bin"],
     [n \in EnvNames |-> IF n = "PATH" THEN "/usr/bin" ELSE "/opt/baselibs"]}

-----------------------------------------------------------------------------
(* Helpers of the framework that the recipe calls *)

\* self.define(name, value) for a string value: one key/value define.
define(name, value) == [name |-> name, kind |-> "STRING", value |-> value]

\* self.define_from_variant(name, variant) for a boolean variant.
define_from_variant(s, name, variant) ==
    [name |-> name, kind |-> "BOOL",
     value |-> IF s.variants[variant] THEN "ON" ELSE "OFF"]

\* self.spec.satisfies("^pkg"): pkg is a node of the concrete spec's DAG.
satisfies_dep(s, pkg) == pkg \in s.spec.deps

-----------------------------------------------------------------------------
(* Python's str.split(".")[0], int() and " ".join() *)

RECURSIVE SplitFirst(_, _)
\* text.split(sep)[0]: the text before the first sep (all of it if none).
SplitFirst(text, sep) ==
    IF text = << >> \/ Head(text) = sep THEN << >>
    ELSE <<Head(text)>> \o SplitFirst(Tail(text), sep)

Whitespace == {" ", "\n", "\t"}

DigitChars == {"0", "1", "2", "3", "4", "5", "6", "7", "8", "9"}

DigitValue(c) == CHOOSE d \in 0..9 : Digit(d) = c

RECURSIVE LStrip(_)
LStrip(text) ==
    IF text # << >> /\ Head(text) \in Whitespace THEN LStrip(Tail(text)) ELSE text

RECURSIVE RStrip(_)
RStrip(text) ==
    IF text # << >> /\ text[Len(text)] \in Whitespace
    THEN RStrip(SubSeq(text, 1, Len(text) - 1)) ELSE text

RECURSIVE DigitsValue(_)
\* The value of a text of digits and "_" separators, which count for nothing.
DigitsValue(ds) ==
    IF ds = << >> THEN 0
    ELSE IF ds[Len(ds)] = "_" THEN DigitsValue(SubSeq(ds, 1, Len(ds) - 1))
    ELSE 10 * DigitsValue(SubSeq(ds, 1, Len(ds) - 1)) + DigitValue(ds[Len(ds)])

\* int(text): surrounding whitespace is dropped, then an optional sign and
\* one or more decimal digits, which single "_" may separate, are required;
\* anything else is a ValueError.
PyInt(text) ==
    LET t == RStrip(LStrip(text))
        signed == t # << >> /\ Head(t) \in {"+", "-"}
        body == IF signed THEN Tail(t) ELSE t
        wellFormed ==
            /\ body # << >>
            /\ body[1] \in DigitChars /\ body[Len(body)] \in DigitChars
            /\ \A i \in 1..Len(body) : body[i] \in DigitChars \cup {"_"}
            /\ \A i \in 1..(Len(body) - 1) : ~(body[i] = "_" /\ body[i + 1] = "_")
    IN  IF wellFormed
        THEN [ok |-> TRUE,
              value |-> IF signed /\ Head(t) = "-" THEN -DigitsValue(body)
                        ELSE DigitsValue(body)]
        ELSE [ok |-> FALSE, value |-> 0]

RECURSIVE Join(_, _)
\* sep.join(strs)
Join(sep, strs) ==
    IF strs = << >> THEN ""
    ELSE IF Len(strs) = 1 THEN strs[1]
    ELSE strs[1] \o sep \o Join(sep, Tail(strs))

-----------------------------------------------------------------------------
(* cmake_args, package.py:91-138 *)

\* Mutant of InitialArgs: the two toggles read each other's variant.
InitialArgs_Swapped(s) ==
    << define_from_variant(s, "USE_F2PY", "extdata2g"),
       define_from_variant(s, "USE_EXTDATA2G", "f2py"),
       define("CMAKE_MODULE_PATH", s.spec.esmf_prefix \o "/cmake") >>

\* package.py:92-96: the initial list.
InitialArgs(s) ==
    << define_from_variant(s, "USE_F2PY", "f2py"),
       define_from_variant(s, "USE_EXTDATA2G", "extdata2g"),
       define("CMAKE_MODULE_PATH", s.spec.esmf_prefix \o "/cmake") >>

\* package.py:100
InGccFamily(s) == s.compiler.name \in GccFamily

\* package.py:102-106: int(get_compiler_version_output(fc, "-dumpversion")
\*                          .split(".")[0])
GfortranMajorVer(s) == PyInt(SplitFirst(s.compiler.fc.dumpversion, "."))

\* Mutant of Fflags: the version gate is > instead of >=.
Fflags_StrictGate(s) ==
    IF InGccFamily(s)
    THEN <<"-ffree-line-length-none">>
         \o (IF GfortranMajorVer(s).value > GfortranGate
             THEN <<"-fallow-invalid-boz", "-fallow-argument-mismatch">>
             ELSE << >>)
    ELSE << >>

\* package.py:99-109: the compatibility flags (when the version parsed).
Fflags(s) ==
    IF InGccFamily(s)
    THEN <<"-ffree-line-length-none">>
         \o (IF GfortranMajorVer(s).value >= GfortranGate
             THEN <<"-fallow-invalid-boz", "-fallow-argument-mismatch">>
             ELSE << >>)
    ELSE << >>

\* Mutant of FflagsArgs: the `if fflags:` guard is missing.
FflagsArgs_Unguarded(s) ==
    <<define("CMAKE_Fortran_FLAGS", Join(" ", Fflags(s)))>>

\* package.py:110-111
FflagsArgs(s) ==
    IF Fflags(s) # << >>
    THEN <<define("CMAKE_Fortran_FLAGS", Join(" ", Fflags(s)))>>
    ELSE << >>

\* Mutant of MpiStack: the Intel branch passes the package name on.
MpiStack_PackageName(s) ==
    IF satisfies_dep(s, "mpich") THEN "mpich"
    ELSE IF satisfies_dep(s, "openmpi") THEN "openmpi"
    ELSE IF satisfies_dep(s, "intel-oneapi-mpi") THEN "intel-oneapi-mpi"
    ELSE IF satisfies_dep(s, "mvapich") THEN "mvapich"
    ELSE IF satisfies_dep(s, "mpt") THEN "mpt"
    ELSE ""

\* Mutant of MpiStack: the else branch falls back to a default stack.
MpiStack_Fallback(s) ==
    IF satisfies_dep(s, "mpich") THEN "mpich"
    ELSE IF satisfies_dep(s, "openmpi") THEN "openmpi"
    ELSE IF satisfies_dep(s, "intel-oneapi-mpi") THEN "intelmpi"
    ELSE IF satisfies_dep(s, "mvapich") THEN "mvapich"
    ELSE IF satisfies_dep(s, "mpt") THEN "mpt"
    ELSE "openmpi"

\* package.py:125-136: the if/elif chain; "" stands for the else branch.
MpiStack(s) ==
    IF satisfies_dep(s, "mpich") THEN "mpich"
    ELSE IF satisfies_dep(s, "openmpi") THEN "openmpi"
    ELSE IF satisfies_dep(s, "intel-oneapi-mpi") THEN "intelmpi"
    ELSE IF satisfies_dep(s, "mvapich") THEN "mvapich"
    ELSE IF satisfies_dep(s, "mpt") THEN "mpt"
    ELSE ""

Raise(e) == [raised |-> e, args |-> << >>]

Return(a) == [raised |-> "", args |-> a]

\* Mutant of cmake_args: MPI_STACK is appended before the Fortran flags.
cmake_args_MpiBeforeFlags(s) ==
    IF InGccFamily(s) /\ ~GfortranMajorVer(s).ok THEN Raise("ValueError")
    ELSE IF MpiStack(s) = "" THEN Raise("InstallError: Unsupported MPI stack")
    ELSE Return(InitialArgs(s) \o <<define("MPI_STACK", MpiStack(s))>>
                \o FflagsArgs(s))

\* Mutant of cmake_args: an unsupported MPI stack returns what was built so
\* far instead of raising.
cmake_args_PartialOnError(s) ==
    IF InGccFamily(s) /\ ~GfortranMajorVer(s).ok THEN Raise("ValueError")
    ELSE IF MpiStack(s) = "" THEN Return(InitialArgs(s) \o FflagsArgs(s))
    ELSE Return(InitialArgs(s) \o FflagsArgs(s)
                \o <<define("MPI_STACK", MpiStack(s))>>)

\* Mutant of cmake_args: the build type is passed as one more define.
cmake_args_BuildType(s) ==
    IF InGccFamily(s) /\ ~GfortranMajorVer(s).ok THEN Raise("ValueError")
    ELSE IF MpiStack(s) = "" THEN Raise("InstallError: Unsupported MPI stack")
    ELSE Return(InitialArgs(s) \o FflagsArgs(s)
                \o <<define("CMAKE_BUILD_TYPE", s.variants.build_type),
                     define("MPI_STACK", MpiStack(s))>>)

\* package.py:91-138: the outcome of one call, an exception or the list.
cmake_args(s) ==
    IF InGccFamily(s) /\ ~GfortranMajorVer(s).ok THEN Raise("ValueError")
    ELSE IF MpiStack(s) = "" THEN Raise("InstallError: Unsupported MPI stack")
    ELSE Return(InitialArgs(s) \o FflagsArgs(s)
                \o <<define("MPI_STACK", MpiStack(s))>>)

-----------------------------------------------------------------------------
(* clone_mepo, package.py:77-89 *)

\* Mutant of clone_mepo: a failure of the tool is swallowed.
clone_mepo_Swallow(exit) ==
    [command |-> <<"mepo", "clone", "--partial=blobless">>, raised |-> ""]

\* mepo("clone", "--partial=blobless") in the source directory: a non-zero
\* exit of the tool raises, and the hook does not catch it.
clone_mepo(exit) ==
    [command |-> <<"mepo", "clone", "--partial=blobless">>,
     raised |-> IF exit = 0 THEN "" ELSE "ProcessError: mepo"]

-----------------------------------------------------------------------------
(* setup_build_environment, package.py:140-147 *)

\* Mutant of setup_build_environment: the name is misspelt.
setup_build_environment_Typo(env) ==
    Append(env, [op |-> "unset", name |-> "BASE_DIR"])

setup_build_environment(env) == Append(env, [op |-> "unset", name |-> "BASEDIR"])

RECURSIVE apply_modifications(_, _)
\* The framework applies the recorded modifications to the process
\* environment, in order; unsetting an absent name changes nothing.
apply_modifications(mods, e) ==
    IF mods = << >> THEN e
    ELSE LET m == Head(mods)
             e1 == IF m.op = "unset"
                   THEN [n \in (DOMAIN e) \ {m.name} |-> e[n]]
                   ELSE e
         IN  apply_modifications(Tail(mods), e1)

-----------------------------------------------------------------------------
(* The build *)

\* The order in which one build runs the recipe's steps.
Phases == <<"clone_mepo", "cmake_args", "setup_build_environment", "cmake">>

Step == IF pc \in 1..Len(Phases) THEN Phases[pc] ELSE "end"

Init ==
    /\ self \in
         [variants : Variants,
          compiler : [name : CompilerNames, fc : FortranCompilers],
          spec : {[deps |-> OtherDeps \cup {m}, esmf_prefix |-> p] :
                    m \in MpiProviders, p \in EsmfPrefixes}]
    /\ pc = 1
    /\ status = "running"
    /\ log = << >>
    /\ mepo_exit = << >>
    /\ cmake_exit = << >>
    /\ args = << >>
    /\ err = ""
    /\ env_mods = << >>
    /\ environ \in InitialEnvirons
    /\ environ0 = environ
    /\ cmake_cmd = << >>

Abort(e) == status' = "failed" /\ err' = e /\ pc' = pc

Advance == status' = "running" /\ err' = err /\ pc' = pc + 1

RunCloneMepo ==
    /\ status = "running" /\ Step = "clone_mepo"
    /\ \E exit \in {0, 1} :
         /\ mepo_exit' = <<exit>>
         /\ log' = Append(log, "clone_mepo")
         /\ IF clone_mepo(exit).raised = "" THEN Advance
            ELSE Abort(clone_mepo(exit).raised)
    /\ UNCHANGED <<self, cmake_exit, args, env_mods, environ, environ0, cmake_cmd>>

RunCmakeArgs ==
    /\ status = "running" /\ Step = "cmake_args"
    /\ log' = Append(log, "cmake_args")
    /\ args' = cmake_args(self).args
    /\ IF cmake_args(self).raised = "" THEN Advance
       ELSE Abort(cmake_args(self).raised)
    /\ UNCHANGED <<self, mepo_exit, cmake_exit, env_mods, environ, environ0, cmake_cmd>>

RunSetupBuildEnvironment ==
    /\ status = "running" /\ Step = "setup_build_environment"
    /\ log' = Append(log, "setup_build_environment")
    /\ env_mods' = setup_build_environment(env_mods)
    /\ environ' = apply_modifications(env_mods', environ)
    /\ Advance
    /\ UNCHANGED <<self, mepo_exit, cmake_exit, args, environ0, cmake_cmd>>

RunCmake ==
    /\ status = "running" /\ Step = "cmake"
    /\ log' = Append(log, "cmake")
    /\ cmake_cmd' = <<[defines |-> args, build_type |-> self.variants.build_type,
                       environ |-> environ]>>
    /\ \E exit \in {0, 1} :
         /\ cmake_exit' = <<exit>>
         /\ IF exit = 0 THEN status' = "done" /\ err' = err /\ pc' = pc + 1
            ELSE Abort("ProcessError: cmake")
    /\ UNCHANGED <<self, mepo_exit, args, env_mods, environ, environ0>>

Next == RunCloneMepo \/ RunCmakeArgs \/ RunSetupBuildEnvironment \/ RunCmake

Spec == Init /\ [][Next]_vars

-----------------------------------------------------------------------------
(* Vocabulary of the properties *)

CmakeArgsErrors == {"ValueError", "InstallError: Unsupported MPI stack"}

Ran(step) == \E i \in 1..Len(log) : log[i] = step

CmakeArgsRan == Ran("cmake_args")

CmakeArgsRaised == CmakeArgsRan /\ err \in CmakeArgsErrors

CmakeArgsReturned == CmakeArgsRan /\ err \notin CmakeArgsErrors

\* The package that provides MPI in the concrete spec.
MpiProvider == CHOOSE m \in MpiProviders : m \in self.spec.deps

\* The short identifier the recipe's comment (package.py:119-123) gives each
\* supported provider.
ShortId ==
    [p \in {"mpich", "openmpi", "intel-oneapi-mpi", "mvapich", "mpt"} |->
       CASE p = "mpich" -> "mpich"
         [] p = "openmpi" -> "openmpi"
         [] p = "intel-oneapi-mpi" -> "intelmpi"
         [] p = "mvapich" -> "mvapich"
         [] p = "mpt" -> "mpt"]

Slots(name) == {i \in 1..Len(args) : args[i].name = name}

Names == [i \in 1..Len(args) |-> args[i].name]

OnOff(b) == IF b THEN "ON" ELSE "OFF"

AllThreeFlags ==
    "-ffree-line-length-none -fallow-invalid-boz -fallow-argument-mismatch"

IsPrefix(a, b) == Len(a) <= Len(b) /\ a = SubSeq(b, 1, Len(a))

-----------------------------------------------------------------------------
(* The properties *)

\* C1: for each of the five supported MPI providers, whatever the variants
\* and the compiler, cmake_args returns a list with exactly one MPI_STACK
\* define, whose value is the provider's short identifier.
C1_MpiStackDefine ==
    (CmakeArgsRan /\ MpiProvider \in DOMAIN ShortId) =>
        /\ CmakeArgsReturned
        /\ Cardinality(Slots("MPI_STACK")) = 1
        /\ \A i \in Slots("MPI_STACK") :
             args[i] = [name |-> "MPI_STACK", kind |-> "STRING",
                        value |-> ShortId[MpiProvider]]

C1_Witness ==
    /\ CmakeArgsReturned
    /\ MpiProvider = "intel-oneapi-mpi"
    /\ self.compiler.name = "gcc"
    /\ args[Len(args)].value = "intelmpi"

\* C2: with an MPI provider outside the five, cmake_args raises
\* "Unsupported MPI stack" and returns no list, partial or defaulted; the
\* build stops there, with no retry.
C2_UnsupportedMpiAborts ==
    (CmakeArgsRan /\ MpiProvider \notin DOMAIN ShortId) =>
        /\ err = "InstallError: Unsupported MPI stack"
        /\ status = "failed"
        /\ args = << >>
        /\ cmake_cmd = << >>
        /\ Cardinality({i \in 1..Len(log) : log[i] = "cmake_args"}) = 1
        /\ log[Len(log)] = "cmake_args"

C2_Witness ==
    /\ CmakeArgsRan
    /\ MpiProvider = "cray-mpich"
    /\ self.compiler.name = "clang"
    /\ err = "InstallError: Unsupported MPI stack"

\* C3: for gcc, clang and apple-clang the returned list has one
\* CMAKE_Fortran_FLAGS define; its value is the line-length flag alone for a
\* Fortran compiler of major version below 10, and the three flags joined by
\* single spaces, in order, for major version 10 or more.
C3_FortranFlagsValue ==
    (CmakeArgsReturned /\ self.compiler.name \in {"gcc", "clang", "apple-clang"}) =>
        /\ Cardinality(Slots("CMAKE_Fortran_FLAGS")) = 1
        /\ \A i \in Slots("CMAKE_Fortran_FLAGS") :
             args[i].value = IF self.compiler.fc.major < 10
                             THEN "-ffree-line-length-none"
                             ELSE AllThreeFlags

C3_Witness ==
    /\ CmakeArgsReturned
    /\ self.compiler.name = "apple-clang"
    /\ self.compiler.fc.major = 10
    /\ args[4] = [name |-> "CMAKE_Fortran_FLAGS", kind |-> "STRING",
                  value |-> AllThreeFlags]

\* C4: for a compiler outside gcc, clang and apple-clang the returned list
\* has no CMAKE_Fortran_FLAGS define.
C4_NoFlagsOutsideFamily ==
    (CmakeArgsReturned /\ self.compiler.name \notin {"gcc", "clang", "apple-clang"}) =>
        Slots("CMAKE_Fortran_FLAGS") = {}

C4_Witness ==
    /\ CmakeArgsReturned
    /\ self.compiler.name = "intel"
    /\ self.variants.f2py
    /\ Len(args) = 4

C6_DefineOrder ==
    CmakeArgsReturned =>
        Names = <<"USE_F2PY", "USE_EXTDATA2G", "CMAKE_MODULE_PATH">>
                \o (IF self.compiler.name \in {"gcc", "clang", "apple-clang"}
                    THEN <<"CMAKE_Fortran_FLAGS">> ELSE << >>)
                \o <<"MPI_STACK">>

C6_Witness ==
    /\ CmakeArgsReturned
    /\ self.compiler.name = "clang"
    /\ Len(args) = 5
    /\ args[5].name = "MPI_STACK"

C8_TogglesFollowVariants ==
    CmakeArgsReturned =>
        /\ Cardinality(Slots("USE_F2PY")) = 1
        /\ Cardinality(Slots("USE_EXTDATA2G")) = 1
        /\ \A i \in Slots("USE_F2PY") : args[i].value = OnOff(self.variants.f2py)
        /\ \A i \in Slots("USE_EXTDATA2G") :
             args[i].value = OnOff(self.variants.extdata2g)

C8_Witness ==
    /\ CmakeArgsReturned
    /\ self.variants = DefaultVariants
    /\ args[1] = [name |-> "USE_F2PY", kind |-> "BOOL", value |-> "OFF"]
    /\ args[2] = [name |-> "USE_EXTDATA2G", kind |-> "BOOL", value |-> "ON"]

\* C9: after setup_build_environment BASEDIR is absent from the build
\* environment whether or not it was set, nothing else changed and no error
\* arose; with BASEDIR absent before, the environment is unchanged; and
\* running the step again gives the same environment.
C9_UnsetBasedir ==
    Ran("setup_build_environment") =>
        /\ "BASEDIR" \notin DOMAIN environ
        /\ DOMAIN environ = (DOMAIN environ0) \ {"BASEDIR"}
        /\ \A n \in DOMAIN environ : environ[n] = environ0[n]
        /\ "BASEDIR" \notin DOMAIN environ0 => environ = environ0
        /\ err \in {"", "ProcessError: cmake"}
        /\ apply_modifications(setup_build_environment(<< >>), environ) = environ
        /\ apply_modifications(
               setup_build_environment(setup_build_environment(<< >>)), environ0)
             = apply_modifications(setup_build_environment(<< >>), environ0)

C9_Witness ==
    /\ Ran("setup_build_environment")
    /\ "BASEDIR" \in DOMAIN environ0
    /\ environ0["BASEDIR"] = "/opt/baselibs"
    /\ DOMAIN environ = {"PATH"}

====
